---- MODULE Spec2Model ----
(***************************************************************************)
(* VoiceForge backend: the /api/convert handler (backend/main.py) and the  *)
(* transform pipeline it calls (backend/audio_processing.py).              *)
(*                                                                         *)
(* Numbers.  The program computes on floats.  Here every number is an     *)
(* exact rational <<n, d>> in lowest terms with d > 0; <<1,0>>, <<-1,0>>   *)
(* and <<0,0>> stand for +inf, -inf and nan, which only a division by     *)
(* zero produces.                                                          *)
(*                                                                         *)
(* Library routines (librosa, scipy.signal, soundfile) are outside the     *)
(* repository.  Each is a deterministic stand-in, and each call is logged  *)
(* in `trace` with the arguments the program passed, its input buffer and  *)
(* its output buffer.  A library call may reject its input and raise; the  *)
(* numpy expressions of the emotion and normalize stages do not.  The      *)
(* database is taken to accept every insert.                               *)
(***************************************************************************)
EXTENDS Integers, Sequences, FiniteSets

VARIABLES
    pc,               \* position of the handler / of process_audio
    pending,          \* convert requests the client may still send
    file_bytes,       \* the uploaded file of the request being served
    filename,         \* audio.filename of the request being served
    settings,         \* the VoiceSettings record of the request being served
    audio,            \* process_audio's local sample buffer
    trace,            \* the stages executed so far, in order
    processed_bytes,  \* <<the value process_audio returned>>, <<>> before
    error,            \* the stage whose exception left the handler ("none")
    jobs,             \* rows of table render_jobs
    response,         \* <<the response the handler returned>>, <<>> before
    outcomes          \* per finished request: "returned" or "raised"

vars == <<pc, pending, file_bytes, filename, settings, audio, trace,
          processed_bytes, error, jobs, response, outcomes>>

----------------------------------------------------------------------------
(* Bounds of the model *)

\* longest buffer handed to the two pure helpers in FnSpec
MaxLen == 6
\* most frames an uploaded file holds in Spec and ServerSpec
MaxFrames == 3
\* most convert requests one behaviour of ServerSpec serves
MaxRequests == 2

----------------------------------------------------------------------------
(* Float arithmetic, as exact rationals *)

abs(i) == IF i < 0 THEN -i ELSE i

RECURSIVE gcd(_, _)
gcd(a, b) == IF b = 0 THEN a ELSE gcd(b, a % b)

\* the rational n/d in lowest terms; d = 0 gives inf / nan
Rat(n, d) ==
    IF d = 0 THEN <<(IF n > 0 THEN 1 ELSE IF n < 0 THEN -1 ELSE 0), 0>>
    ELSE LET g == gcd(abs(n), abs(d))
             s == IF d < 0 THEN -1 ELSE 1
         IN  <<(s * n) \div g, (s * d) \div g>>

R(i) == <<i, 1>>
Zero == R(0)
One == R(1)

IsFinite(a) == a[2] # 0
RAdd(a, b) == Rat(a[1] * b[2] + b[1] * a[2], a[2] * b[2])
RSub(a, b) == Rat(a[1] * b[2] - b[1] * a[2], a[2] * b[2])
RMul(a, b) == Rat(a[1] * b[1], a[2] * b[2])
RDiv(a, b) == Rat(a[1] * b[2], a[2] * b[1])
RAbs(a) == <<abs(a[1]), a[2]>>
RLt(a, b) == IsFinite(a) /\ IsFinite(b) /\ a[1] * b[2] < b[1] * a[2]
RLe(a, b) == IsFinite(a) /\ IsFinite(b) /\ a[1] * b[2] <= b[1] * a[2]
RMax(a, b) == IF RLt(a, b) THEN b ELSE a
RFloor(a) == a[1] \div a[2]

\* np.abs on an array
AbsBuf(buf) == [i \in 1..Len(buf) |-> RAbs(buf[i])]

RECURSIVE MaxOf(_)
MaxOf(buf) ==
    IF Len(buf) = 1 THEN buf[1] ELSE RMax(buf[1], MaxOf(Tail(buf)))

----------------------------------------------------------------------------
(* _safe_normalize *)

\* variant: the zero-peak test is missing
_safe_normalize_unguarded(a) ==
    LET peak == IF Len(a) # 0 THEN MaxOf(AbsBuf(a)) ELSE Zero
    IN  [i \in 1..Len(a) |-> RDiv(a[i], peak)]

\* variant: the peak is taken without np.abs
_safe_normalize_signed(a) ==
    LET peak == IF Len(a) # 0 THEN MaxOf(a) ELSE Zero
    IN  IF peak = Zero THEN a
        ELSE [i \in 1..Len(a) |-> RDiv(a[i], peak)]

_safe_normalize(a) ==
    LET peak == IF Len(a) # 0 THEN MaxOf(AbsBuf(a)) ELSE Zero
    IN  IF peak = Zero THEN a
        ELSE [i \in 1..Len(a) |-> RDiv(a[i], peak)]

----------------------------------------------------------------------------
(* _apply_noise_gate *)

RECURSIVE Insert(_, _)
Insert(v, sorted) ==
    IF sorted = <<>> THEN <<v>>
    ELSE IF RLe(v, Head(sorted)) THEN <<v>> \o sorted
    ELSE <<Head(sorted)>> \o Insert(v, Tail(sorted))

RECURSIVE Sort(_)
Sort(buf) == IF buf = <<>> THEN <<>> ELSE Insert(Head(buf), Sort(Tail(buf)))

\* np.percentile(a, q), method "linear", on a non-empty array: the value at
\* virtual index (n-1)*q/100 of the sorted array, interpolated between the
\* two neighbouring order statistics
Percentile(a, q) ==
    LET sorted == Sort(a)
        n == Len(a)
        virtual == Rat((n - 1) * q, 100)
        lo == RFloor(virtual)
        g == RSub(virtual, R(lo))
    IN  IF g = Zero THEN sorted[lo + 1]
        ELSE RAdd(sorted[lo + 1],
                  RMul(g, RSub(sorted[lo + 2], sorted[lo + 1])))

Tenth == Rat(1, 10)

\* variant: samples at the threshold are attenuated too
_apply_noise_gate_inclusive(a, strength) ==
    LET threshold == RMul(Percentile(AbsBuf(a), 20), RAdd(One, strength))
    IN  [i \in 1..Len(a) |->
            IF RLe(RAbs(a[i]), threshold) THEN RMul(a[i], Tenth) ELSE a[i]]

_apply_noise_gate(a, strength) ==
    LET threshold == RMul(Percentile(AbsBuf(a), 20), RAdd(One, strength))
    IN  [i \in 1..Len(a) |->
            IF RLt(RAbs(a[i]), threshold) THEN RMul(a[i], Tenth) ELSE a[i]]

----------------------------------------------------------------------------
(* Library stand-ins *)

SR == 44100

\* round half to even, as Python's round()
RRound(a) ==
    LET f == RFloor(a)
        twice == RSub(RMul(R(2), a), R(2 * f))   \* 2 * fractional part
    IN  IF RLt(twice, One) THEN f
        ELSE IF RLt(One, twice) THEN f + 1
        ELSE IF f % 2 = 0 THEN f ELSE f + 1

RECURSIVE Sum(_)
Sum(buf) == IF buf = <<>> THEN Zero ELSE RAdd(Head(buf), Sum(Tail(buf)))

\* librosa.load(..., sr=44100, mono=True) on a decodable file: each frame's
\* channels are averaged
Decode(file) ==
    [i \in 1..Len(file.frames) |->
        RDiv(Sum(file.frames[i]), R(Len(file.frames[i])))]

\* librosa.effects.time_stretch, for rate > 0: round(len / rate) samples,
\* read from the input at step `rate`
TimeStretch(y, rate) ==
    LET n == Len(y)
        m == RRound(RDiv(R(n), rate))
    IN  [i \in 1..m |->
            LET j == RFloor(RMul(R(i - 1), rate)) + 1
            IN  y[IF j > n THEN n ELSE j]]

\* librosa.effects.pitch_shift: the length is kept; each sample is mixed
\* with its predecessor in proportion to the shift in octaves
PitchShift(y, sr, n_steps) ==
    LET n == Len(y)
        k == RDiv(n_steps, R(12))
    IN  [i \in 1..n |->
            RAdd(y[i], RMul(k, y[IF i = 1 THEN n ELSE i - 1]))]

\* scipy.signal.butter(2, Wn, btype): the normalised cutoff must lie in
\* (0, 1); the stand-in response depends on btype
Butter(Wn, btype) ==
    IF btype = "highpass" THEN <<One, R(-1)>> ELSE <<Rat(1, 2), Rat(1, 2)>>

\* scipy.signal.lfilter(b, [1], x): causal, zero initial state
LFilter(b, x) ==
    [i \in 1..Len(x) |->
        Sum([k \in 1..Len(b) |->
                IF i - k + 1 >= 1 THEN RMul(b[k], x[i - k + 1]) ELSE Zero])]

\* np.tanh: odd, increasing, bounded by 1
Tanh(x) == RDiv(x, RAdd(One, RAbs(x)))

\* <<quotient, remainder>> of n * m by d, for n >= 0, m >= 0, d > 0, by
\* doubling, so that no intermediate product leaves the integer range
RECURSIVE MulDiv(_, _, _)
MulDiv(n, m, d) ==
    IF m = 0 THEN <<0, 0>>
    ELSE LET h == MulDiv(n, m \div 2, d)
             q2 == (2 * h[1]) + ((2 * h[2]) \div d)
             r2 == (2 * h[2]) % d
         IN  IF m % 2 = 0 THEN <<q2, r2>>
             ELSE <<q2 + (n \div d) + ((r2 + (n % d)) \div d),
                    (r2 + (n % d)) % d>>

\* soundfile.write(..., format="WAV"): 16-bit PCM, each sample scaled by
\* 32767, rounded half to even and clipped
Encode(a, sr) ==
    [format |-> "WAV", samplerate |-> sr, channels |-> 1,
     data |-> [i \in 1..Len(a) |->
                 LET qr == MulDiv(abs(a[i][1]), 32767, a[i][2])
                     twice == 2 * qr[2]
                     mag == IF twice < a[i][2] THEN qr[1]
                            ELSE IF twice > a[i][2] THEN qr[1] + 1
                            ELSE IF qr[1] % 2 = 0 THEN qr[1] ELSE qr[1] + 1
                     q == IF a[i][1] < 0 THEN -mag ELSE mag
                 IN  IF q > 32767 THEN 32767
                     ELSE IF q < -32768 THEN -32768 ELSE q]]

----------------------------------------------------------------------------
(* _apply_filter *)

_apply_filter(a, sr, cutoff, btype, gain) ==
    LET b == Butter(RDiv(R(cutoff), RDiv(R(sr), R(2))), btype)
        filtered == LFilter(b, a)
    IN  [i \in 1..Len(a) |-> RAdd(a[i], RMul(filtered[i], gain))]

----------------------------------------------------------------------------
(* Inputs *)

PitchValues == {R(0), R(2)}
MorphValues == {R(-50), R(0), R(50)}
TimbreValues == {R(-80), R(0), R(80)}
DepthValues == {R(-60), R(0), R(60)}
SpeedValues == {R(-1), R(0), Rat(1, 10), Rat(1, 2), R(1), R(2)}
EmotionValues == {R(-120), R(0), R(120)}
NoiseValues == {R(-100), R(0), R(100)}
ClarityValues == {R(-120), R(0), R(120)}

Record(p, t, d, sp, e, m, n, c) ==
    [pitch |-> p, timbre |-> t, depth |-> d, speed |-> sp, emotion |-> e,
     morph |-> m, noise_reduction |-> n, clarity |-> c]

\* the settings of Spec: every pitch, morph and speed with every on/off
\* combination of the five gain controls, and every sign combination of the
\* five gain controls with pitch, morph and speed neutral
VoiceSettings ==
    {Record(p, t, d, sp, e, m, n, c) :
        p \in PitchValues, m \in MorphValues, sp \in SpeedValues,
        t \in {R(0), R(80)}, d \in {R(0), R(60)}, e \in {R(0), R(120)},
        n \in {R(0), R(100)}, c \in {R(0), R(120)}}
    \cup
    {Record(R(0), t, d, R(1), e, R(0), n, c) :
        t \in TimbreValues, d \in DepthValues, e \in EmotionValues,
        n \in NoiseValues, c \in ClarityValues}

\* the Form defaults of convert_audio
FormDefaults ==
    Record(R(0), R(0), R(0), R(1), R(50), R(0), R(40), R(60))

\* settings sent by the client of ServerSpec: the defaults, and one record
\* that runs the stages the defaults skip
FormSettings ==
    {FormDefaults,
     Record(R(2), R(80), R(60), R(2), R(0), R(0), R(0), R(0))}

\* frame i of a mono and of a stereo recording
MonoFrame(i) == <<Rat((i % 3) - 1, 2)>>
StereoFrame(i) == <<R(-1), Rat(1, i)>>

\* uploads: one the decoder rejects, and the recordings cut to every length
Uploads ==
    {[valid |-> FALSE, frames |-> <<>>]}
    \cup {[valid |-> TRUE, frames |-> [i \in 1..k |-> MonoFrame(i)]] :
             k \in 0..MaxFrames}
    \cup {[valid |-> TRUE, frames |-> [i \in 1..k |-> StereoFrame(i)]] :
             k \in 1..MaxFrames}

Filenames == {"", "voice.wav"}

----------------------------------------------------------------------------
(* process_audio: guards and arguments of the stages *)

Half == Rat(1, 2)

StretchGuard(s) == s.speed # One
\* variant: min for max
StretchRate_min(s) == IF RLt(s.speed, Half) THEN s.speed ELSE Half
StretchRate(s) == RMax(Half, s.speed)

PitchSteps(s) ==
    LET morph_shift == RDiv(s.morph, R(25))
    IN  RAdd(s.pitch, morph_shift)
\* variant: the guard tests pitch alone
PitchGuard_pitch_only(s) == s.pitch # Zero
PitchGuard(s) == PitchSteps(s) # Zero


\* variant: the timbre filter guarded like the clarity filter
TimbreGuard_positive(s) == RLt(Zero, s.timbre)
TimbreGuard(s) == s.timbre # Zero
TimbreGain(s) == RDiv(s.timbre, R(80))
DepthGuard(s) == s.depth # Zero
DepthGain(s) == RDiv(s.depth, R(60))
\* variant: >= for >
EmotionGuard_nonneg(s) == RLe(Zero, s.emotion)
EmotionGuard(s) == RLt(Zero, s.emotion)
EmotionIntensity(s) == RDiv(s.emotion, R(120))
NoiseGuard(s) == RLt(Zero, s.noise_reduction)
NoiseStrength(s) == RDiv(s.noise_reduction, R(100))
ClarityGuard(s) == RLt(Zero, s.clarity)
ClarityGain(s) == RDiv(s.clarity, R(120))

----------------------------------------------------------------------------
(* Steps of the handler *)

\* variant: the clarity filter placed before the noise gate
ProgramOrder_clarity_first ==
    <<"decode", "time_stretch", "pitch_shift", "timbre", "depth", "emotion",
      "clarity", "noise_gate", "normalize", "encode", "commit", "respond",
      "responded">>

\* the statements of process_audio, then of convert_audio after the call, in
\* program order
ProgramOrder ==
    <<"decode", "time_stretch", "pitch_shift", "timbre", "depth", "emotion",
      "noise_gate", "clarity", "normalize", "encode", "commit", "respond",
      "responded">>

\* the statement that follows statement p
After(p) ==
    ProgramOrder[(CHOOSE k \in 1..Len(ProgramOrder) : ProgramOrder[k] = p) + 1]

\* a stage ran: it replaced the buffer
Ran(stage, args, out, next) ==
    /\ trace' = Append(trace, [stage |-> stage, args |-> args,
                               inp |-> audio, out |-> out])
    /\ audio' = out
    /\ pc' = next
    /\ UNCHANGED <<pending, file_bytes, filename, settings, processed_bytes,
                   error, jobs, response, outcomes>>

\* a guard was false: control moves on
Skipped(next) ==
    /\ pc' = next
    /\ UNCHANGED <<pending, file_bytes, filename, settings, audio, trace,
                   processed_bytes, error, jobs, response, outcomes>>

\* variant: the exception is caught and the pipeline carries on
Raised_swallowed(stage) ==
    /\ pc' = After(stage)
    /\ error' = stage
    /\ UNCHANGED <<pending, file_bytes, filename, settings, audio, trace,
                   processed_bytes, jobs, response, outcomes>>

\* a stage raised: nothing in process_audio or convert_audio catches it, so
\* the exception leaves both
Raised(stage) ==
    /\ pc' = "raised"
    /\ error' = stage
    /\ outcomes' = Append(outcomes, "raised")
    /\ UNCHANGED <<pending, file_bytes, filename, settings, audio, trace,
                   processed_bytes, jobs, response>>

\* convert_audio up to the call of process_audio
convert_audio(Domain, Names) ==
    /\ pc \in {"idle", "responded", "raised"}
    /\ pending > 0
    /\ pending' = pending - 1
    /\ file_bytes' \in Uploads
    /\ filename' \in Names
    /\ settings' \in Domain
    /\ audio' = <<>>
    /\ trace' = <<>>
    /\ processed_bytes' = <<>>
    /\ error' = "none"
    /\ response' = <<>>
    /\ pc' = ProgramOrder[1]
    /\ UNCHANGED <<jobs, outcomes>>

Request == convert_audio(VoiceSettings, {"voice.wav"})
FormRequest == convert_audio(FormSettings, Filenames)

Load ==
    /\ pc = "decode"
    /\ IF file_bytes.valid
       THEN Ran("decode", <<SR>>, Decode(file_bytes), After("decode"))
       ELSE Raised("decode")

Stretch ==
    /\ pc = "time_stretch"
    /\ IF StretchGuard(settings)
       THEN \/ /\ RLt(Zero, StretchRate(settings))
               /\ Ran("time_stretch", <<StretchRate(settings)>>,
                      TimeStretch(audio, StretchRate(settings)),
                      After("time_stretch"))
            \/ Raised("time_stretch")
       ELSE Skipped(After("time_stretch"))

Pitch ==
    /\ pc = "pitch_shift"
    /\ IF PitchGuard(settings)
       THEN \/ Ran("pitch_shift", <<SR, PitchSteps(settings)>>,
                   PitchShift(audio, SR, PitchSteps(settings)),
                   After("pitch_shift"))
            \/ Raised("pitch_shift")
       ELSE Skipped(After("pitch_shift"))

Timbre ==
    /\ pc = "timbre"
    /\ IF TimbreGuard(settings)
       THEN \/ Ran("timbre", <<SR, 2800, "highpass", TimbreGain(settings)>>,
                   _apply_filter(audio, SR, 2800, "highpass",
                                 TimbreGain(settings)), After("timbre"))
            \/ Raised("timbre")
       ELSE Skipped(After("timbre"))

Depth ==
    /\ pc = "depth"
    /\ IF DepthGuard(settings)
       THEN \/ Ran("depth", <<SR, 180, "lowpass", DepthGain(settings)>>,
                   _apply_filter(audio, SR, 180, "lowpass",
                                 DepthGain(settings)), After("depth"))
            \/ Raised("depth")
       ELSE Skipped(After("depth"))

Emotion ==
    /\ pc = "emotion"
    /\ IF EmotionGuard(settings)
       THEN Ran("emotion", <<EmotionIntensity(settings)>>,
                [i \in 1..Len(audio) |->
                    Tanh(RMul(audio[i],
                              RAdd(One, EmotionIntensity(settings))))],
                After("emotion"))
       ELSE Skipped(After("emotion"))

\* np.percentile of an empty array raises or yields nan, by numpy version;
\* no sample is below nan
Gate ==
    /\ pc = "noise_gate"
    /\ IF NoiseGuard(settings)
       THEN IF Len(audio) = 0
            THEN \/ Ran("noise_gate", <<NoiseStrength(settings)>>, audio,
                        After("noise_gate"))
                 \/ Raised("noise_gate")
            ELSE Ran("noise_gate", <<NoiseStrength(settings)>>,
                     _apply_noise_gate(audio, NoiseStrength(settings)),
                     After("noise_gate"))
       ELSE Skipped(After("noise_gate"))

Clarity ==
    /\ pc = "clarity"
    /\ IF ClarityGuard(settings)
       THEN \/ Ran("clarity", <<SR, 3200, "highpass", ClarityGain(settings)>>,
                   _apply_filter(audio, SR, 3200, "highpass",
                                 ClarityGain(settings)), After("clarity"))
            \/ Raised("clarity")
       ELSE Skipped(After("clarity"))

Normalize ==
    /\ pc = "normalize"
    /\ Ran("normalize", <<>>, _safe_normalize(audio), After("normalize"))

\* sf.write and the return of process_audio
EncodeStep ==
    /\ pc = "encode"
    /\ \/ /\ trace' = Append(trace, [stage |-> "encode", args |-> <<SR, "WAV">>,
                                     inp |-> audio, out |-> audio])
          /\ processed_bytes' = <<Encode(audio, SR)>>
          /\ pc' = After("encode")
          /\ UNCHANGED <<pending, file_bytes, filename, settings, audio,
                         error, jobs, response, outcomes>>
       \/ Raised("encode")

\* session.add(RenderJob(...)); session.commit()
Commit ==
    /\ pc = "commit"
    /\ jobs' = Append(jobs, [id |-> Len(jobs) + 1,
                             filename |-> IF filename = "" THEN "upload"
                                          ELSE filename,
                             status |-> "completed",
                             consent_confirmed |-> TRUE])
    /\ pc' = After("commit")
    /\ UNCHANGED <<pending, file_bytes, filename, settings, audio, trace,
                   processed_bytes, error, response, outcomes>>

\* return StreamingResponse(iter([processed_bytes]), media_type="audio/wav")
Respond ==
    /\ pc = "respond"
    /\ response' = <<[media_type |-> "audio/wav", body |-> processed_bytes[1]]>>
    /\ outcomes' = Append(outcomes, "returned")
    /\ pc' = After("respond")
    /\ UNCHANGED <<pending, file_bytes, filename, settings, audio, trace,
                   processed_bytes, error, jobs>>

Pipeline ==
    \/ Load \/ Stretch \/ Pitch \/ Timbre \/ Depth \/ Emotion \/ Gate
    \/ Clarity \/ Normalize \/ EncodeStep \/ Commit \/ Respond

Start(n) ==
    /\ pc = "idle"
    /\ pending = n
    /\ file_bytes = [valid |-> FALSE, frames |-> <<>>]
    /\ filename = ""
    /\ settings = FormDefaults
    /\ audio = <<>>
    /\ trace = <<>>
    /\ processed_bytes = <<>>
    /\ error = "none"
    /\ jobs = <<>>
    /\ response = <<>>
    /\ outcomes = <<>>

\* one convert request, over every settings record of the grid
Init == Start(1)
Next == Request \/ Pipeline
Spec == Init /\ [][Next]_vars

\* a client that sends up to MaxRequests requests, one after the other
ServerInit == Start(MaxRequests)
ServerNext == FormRequest \/ Pipeline
ServerSpec == ServerInit /\ [][ServerNext]_vars

----------------------------------------------------------------------------
(* The two pure helpers on their own: FnSpec *)

Samples == {Rat(-3, 2), Rat(-1, 4), R(0), Rat(1, 2)}
SeqsUpTo(S, n) == UNION {[1..k -> S] : k \in 0..n}
Strengths == {R(-2), R(0), Rat(2, 5), R(1)}

FnInit ==
    /\ pc = "fn"
    /\ pending = 0
    /\ file_bytes = [valid |-> FALSE, frames |-> <<>>]
    /\ filename = ""
    /\ settings = FormDefaults
    /\ audio \in SeqsUpTo(Samples, MaxLen)
    /\ trace = <<>>
    /\ processed_bytes = <<>>
    /\ error = "none"
    /\ jobs = <<>>
    /\ response = <<>>
    /\ outcomes = <<>>

\* audio = _safe_normalize(audio), at most twice in a row
CallNormalize ==
    /\ pc = "fn"
    /\ Len(trace) < 2
    /\ \A k \in 1..Len(trace) : trace[k].stage = "normalize"
    /\ Ran("normalize", <<>>, _safe_normalize(audio), "fn")

\* audio = _apply_noise_gate(audio, strength) on a non-empty buffer
CallGate ==
    /\ pc = "fn"
    /\ trace = <<>>
    /\ audio # <<>>
    /\ \E strength \in Strengths :
          Ran("noise_gate", <<strength>>, _apply_noise_gate(audio, strength),
              "fn")

FnNext == CallNormalize \/ CallGate
FnSpec == FnInit /\ [][FnNext]_vars

----------------------------------------------------------------------------
(* Claims about the helpers (FnSpec) *)

Calls(stage) == {k \in 1..Len(trace) : trace[k].stage = stage}

\* the k-th smallest element of a: fewer than k elements lie strictly below
\* it and at least k lie at or below it
OrderStat(a, k) ==
    CHOOSE v \in {a[i] : i \in 1..Len(a)} :
        /\ Cardinality({i \in 1..Len(a) : RLt(a[i], v)}) < k
        /\ Cardinality({i \in 1..Len(a) : RLe(a[i], v)}) >= k

\* the 20th percentile of the absolute values of x by linear interpolation
\* at position (n-1)/5 of the order statistics
P20Abs(x) ==
    LET a == [i \in 1..Len(x) |-> RAbs(x[i])]
        lo == (Len(x) - 1) \div 5
        rem == (Len(x) - 1) % 5
    IN  IF rem = 0 THEN OrderStat(a, lo + 1)
        ELSE RAdd(OrderStat(a, lo + 1),
                  RMul(Rat(rem, 5),
                       RSub(OrderStat(a, lo + 2), OrderStat(a, lo + 1))))

\* C5: on a non-empty buffer _apply_noise_gate keeps the length; a sample
\* whose absolute value is strictly below (20th percentile of the absolute
\* values) * (1 + strength) becomes exactly a tenth of itself, every other
\* sample is unchanged, and a threshold of 0 alters nothing.
C5_GateThreshold ==
    \A k \in Calls("noise_gate") :
        LET x == trace[k].inp
            y == trace[k].out
            threshold == RMul(P20Abs(x), RAdd(One, trace[k].args[1]))
        IN  x # <<>> =>
              /\ Len(y) = Len(x)
              /\ \A i \in 1..Len(x) :
                    IF RLt(RAbs(x[i]), threshold)
                    THEN y[i] = RDiv(x[i], R(10))
                    ELSE y[i] = x[i]
              /\ threshold = Zero => y = x

\* C5 witness: a gate call on a buffer of more than five samples that
\* attenuated one sample and left a louder, non-zero one alone.
C5_Witness ==
    \E k \in Calls("noise_gate") :
        /\ Len(trace[k].inp) > 5
        /\ \E i, j \in 1..Len(trace[k].inp) :
              /\ trace[k].out[i] # trace[k].inp[i]
              /\ trace[k].inp[j] # Zero
              /\ trace[k].out[j] = trace[k].inp[j]

\* C6: _safe_normalize never divides by zero: every result sample is finite;
\* an all-zero or empty buffer comes back unchanged; otherwise every sample
\* is divided by the peak absolute value, so some result sample has absolute
\* value exactly 1 and all lie in [-1, 1].
C6_SafeNormalize ==
    \A k \in Calls("normalize") :
        LET x == trace[k].inp
            y == trace[k].out
            n == Len(x)
        IN  /\ Len(y) = n
            /\ \A i \in 1..n : IsFinite(y[i])
            /\ IF \A i \in 1..n : x[i] = Zero
               THEN y = x
               ELSE \E p \in {RAbs(x[i]) : i \in 1..n} :
                      /\ \A i \in 1..n : RLe(RAbs(x[i]), p)
                      /\ \A i \in 1..n : y[i] = RDiv(x[i], p)
                      /\ \E i \in 1..n : RAbs(y[i]) = One
                      /\ \A i \in 1..n : RLe(RAbs(y[i]), One)

\* C6 witness: _safe_normalize was called on a silent buffer of at least two
\* samples and returned it.
C6_Witness ==
    \E k \in Calls("normalize") :
        /\ Len(trace[k].inp) >= 2
        /\ \A i \in 1..Len(trace[k].inp) : trace[k].inp[i] = Zero
        /\ trace[k].out = trace[k].inp

\* C7: normalising twice gives what normalising once gives.
C7_NormalizeIdempotent ==
    (Len(trace) = 2 /\ Calls("normalize") = {1, 2})
        => trace[2].out = trace[1].out

\* C7 witness: two calls in a row, the first of which changed the buffer.
C7_Witness ==
    /\ Len(trace) = 2
    /\ Calls("normalize") = {1, 2}
    /\ trace[1].out # trace[1].inp
    /\ trace[2].inp = trace[1].out

----------------------------------------------------------------------------
(* Claims about process_audio and convert_audio (Spec, ServerSpec) *)

\* the stages in the order the specification lists them, then the two
\* statements of the handler that follow the transform
ListedOrder ==
    <<"decode", "time_stretch", "pitch_shift", "timbre", "depth", "emotion",
      "noise_gate", "clarity", "normalize", "encode", "commit", "respond",
      "responded">>
Listed(p) == CHOOSE k \in 1..Len(ListedOrder) : ListedOrder[k] = p

AtRest == pc \in {"idle", "responded", "raised"}
Returned == pc \in {"commit", "respond", "responded"}

\* control has passed the stage: it ran or was skipped, and did not raise
Decided(stage) ==
    LET at == IF pc = "raised" THEN error ELSE pc
    IN  pc # "idle" /\ Listed(at) > Listed(stage)

Stages == [k \in 1..Len(trace) |-> trace[k].stage]

Combined(s) == RAdd(s.pitch, RDiv(s.morph, R(25)))

\* the condition under which the specification says a stage is applied
Applied(stage, s) ==
    CASE stage = "time_stretch" -> s.speed # R(1)
      [] stage = "pitch_shift" -> Combined(s) # R(0)
      [] stage = "timbre" -> s.timbre # R(0)
      [] stage = "depth" -> s.depth # R(0)
      [] stage = "emotion" -> RLt(R(0), s.emotion)
      [] stage = "noise_gate" -> RLt(R(0), s.noise_reduction)
      [] stage = "clarity" -> RLt(R(0), s.clarity)
      [] OTHER -> TRUE

\* C1: the executed stages appear in the listed order, none twice and none
\* before an earlier-listed one; decode is the first; when process_audio
\* returns, normalize and then encode are the last two.
C1_StageOrder ==
    /\ \A i, j \in 1..Len(trace) :
          i < j => Listed(trace[i].stage) < Listed(trace[j].stage)
    /\ trace # <<>> => trace[1].stage = "decode"
    /\ pc = "encode" => trace[Len(trace)].stage = "normalize"
    /\ Returned =>
          /\ Len(trace) >= 3
          /\ trace[Len(trace) - 1].stage = "normalize"
          /\ trace[Len(trace)].stage = "encode"

\* C1 witness: a transform that returned after running all ten stages.
C1_Witness ==
    /\ Returned
    /\ Len(trace) = 10

\* C2: a stage whose guard is false does not touch the buffer: each executed
\* stage was applicable and received exactly what the previous executed
\* stage produced, and the current buffer is the last stage's output.  With
\* the identity settings only decode, normalize and encode run, and the
\* encoded buffer is normalize(decode(input)).
IdentitySettings == Record(R(0), R(0), R(0), R(1), R(0), R(0), R(0), R(0))

C2_SkippedStagesAreIdentity ==
    /\ \A k \in 1..Len(trace) : Applied(trace[k].stage, settings)
    /\ \A k \in 2..Len(trace) : trace[k].inp = trace[k - 1].out
    /\ trace # <<>> => audio = trace[Len(trace)].out
    /\ (settings = IdentitySettings /\ Returned) =>
          /\ Stages = <<"decode", "normalize", "encode">>
          /\ trace[3].inp = _safe_normalize(Decode(file_bytes))
          /\ processed_bytes = <<Encode(trace[3].inp, SR)>>

\* C2 witness: the identity settings on a stereo upload of two frames, whose
\* samples normalisation changed.
C2_Witness ==
    /\ settings = IdentitySettings
    /\ Returned
    /\ Len(file_bytes.frames) = 2
    /\ Len(file_bytes.frames[1]) = 2
    /\ trace[2].out # trace[2].inp

\* C3: time-stretch is skipped exactly when speed = 1; otherwise it is
\* called with rate 1/2 for every speed below 1/2, giving what speed = 1/2
\* gives on that buffer, and with the speed itself for every speed from 1/2
\* up.
C3_SpeedClamp ==
    Decided("time_stretch") =>
        /\ (Calls("time_stretch") = {}) <=> (settings.speed = R(1))
        /\ \A k \in Calls("time_stretch") :
              /\ RLt(settings.speed, Rat(1, 2)) =>
                    /\ trace[k].args = <<Rat(1, 2)>>
                    /\ trace[k].out = TimeStretch(trace[k].inp, Rat(1, 2))
              /\ RLe(Rat(1, 2), settings.speed) =>
                    /\ trace[k].args = <<settings.speed>>
                    /\ trace[k].out = TimeStretch(trace[k].inp, settings.speed)

\* C3 witness: speed 1/10 stretched a buffer of two samples or more at rate
\* 1/2.
C3_Witness ==
    /\ settings.speed = Rat(1, 10)
    /\ \E k \in Calls("time_stretch") :
          /\ Len(trace[k].inp) >= 2
          /\ trace[k].args = <<Rat(1, 2)>>
          /\ Len(trace[k].out) = 2 * Len(trace[k].inp)

\* C4: pitch-shift is skipped exactly when pitch + morph/25 is zero;
\* otherwise it is called once with that amount, and any pitch and morph
\* with the same amount give the same guard and the same call on this
\* buffer.
C4_PitchMorphCombined ==
    Decided("pitch_shift") =>
        /\ (Calls("pitch_shift") = {}) <=> (Combined(settings) = R(0))
        /\ \A k \in Calls("pitch_shift") :
              /\ trace[k].args = <<SR, Combined(settings)>>
              /\ trace[k].out =
                    PitchShift(trace[k].inp, SR, Combined(settings))
        /\ \A p \in PitchValues, m \in MorphValues :
              LET other == [settings EXCEPT !.pitch = p, !.morph = m]
              IN  Combined(other) = Combined(settings) =>
                    /\ PitchGuard(other) = PitchGuard(settings)
                    /\ PitchSteps(other) = PitchSteps(settings)

\* C4 witness: pitch 0 with morph 50 shifted a non-empty buffer by 2
\* semitones.
C4_Witness ==
    /\ settings.pitch = R(0)
    /\ settings.morph = R(50)
    /\ \E k \in Calls("pitch_shift") :
          /\ trace[k].inp # <<>>
          /\ trace[k].args = <<SR, R(2)>>

\* C8: once a stage has raised, the request is over: the handler is out of
\* the pipeline, the raising stage and the stages listed after it have not
\* executed, no stage has run twice, and neither process_audio nor the
\* handler has returned any bytes.
C8_RaiseAborts ==
    /\ (error # "none") <=> (pc = "raised")
    /\ error # "none" =>
          /\ processed_bytes = <<>>
          /\ response = <<>>
          /\ \A k \in 1..Len(trace) :
                Listed(trace[k].stage) < Listed(error)
          /\ \A i, j \in 1..Len(trace) :
                trace[i].stage = trace[j].stage => i = j

\* C8 witness: the depth filter raised after at least two stages had run.
C8_Witness ==
    /\ error = "depth"
    /\ Len(trace) >= 2

\* C10: timbre and depth filters run for every non-zero value, with gain
\* timbre/80 and depth/60, negative for a negative value; emotion, noise
\* gate and clarity run only for values above zero.
C10_SignAsymmetry ==
    /\ \A st \in {"timbre", "depth", "emotion", "noise_gate", "clarity"} :
          Decided(st) => ((Calls(st) # {}) <=> Applied(st, settings))
    /\ \A k \in Calls("timbre") :
          /\ trace[k].args[4] = RDiv(settings.timbre, R(80))
          /\ RLt(settings.timbre, R(0)) => RLt(trace[k].args[4], R(0))
    /\ \A k \in Calls("depth") :
          /\ trace[k].args[4] = RDiv(settings.depth, R(60))
          /\ RLt(settings.depth, R(0)) => RLt(trace[k].args[4], R(0))

\* C10 witness: negative timbre and depth were filtered with negative gain
\* while negative emotion, noise reduction and clarity were skipped.
C10_Witness ==
    /\ Returned
    /\ RLt(settings.emotion, R(0))
    /\ RLt(settings.noise_reduction, R(0))
    /\ RLt(settings.clarity, R(0))
    /\ Stages = <<"decode", "timbre", "depth", "normalize", "encode">>
    /\ trace[2].args[4] = R(-1)
    /\ trace[3].args[4] = R(-1)

\* C9: every finished request has its job record: status completed when
\* the transform returned, a failed status when it raised.
C9_JobRecordReflectsOutcome ==
    AtRest =>
        /\ Len(jobs) = Len(outcomes)
        /\ \A k \in 1..Len(jobs) :
              jobs[k].status =
                 IF outcomes[k] = "returned" THEN "completed" ELSE "failed"

\* the half of C9 the handler does implement: one completed record per
\* returned transform, and no other record
CompletedJobsMatchReturns ==
    AtRest =>
        /\ Len(jobs) = Cardinality({k \in 1..Len(outcomes) :
                                       outcomes[k] = "returned"})
        /\ \A k \in 1..Len(jobs) : jobs[k].status = "completed"

====
